---- MODULE Spec2Model ----
(***************************************************************************)
(* Seam carving (src/seam_carving.py) as a state machine.                  *)
(*                                                                         *)
(* A numpy array is a record [shape, dtype, data]: shape is the tuple of   *)
(* extents, data the cells in row-major order.  Indices are 0-based as in  *)
(* the source; only the position inside `data` is 1-based.                 *)
(*                                                                         *)
(* Energies and costs are kept in half units (every energy is twice the    *)
(* value the source computes), because np.gradient halves the central      *)
(* difference.  A uniform positive scale changes no comparison.            *)
(***************************************************************************)
EXTENDS Integers, Sequences, FiniteSets, TLC

VARIABLES
    op,        \* the top-level function being run
    pc,        \* the position inside it
    axis,      \* the axis argument
    efunc,     \* "energy_function", or "injected" (any other estimator)
    image,     \* the image argument
    size,      \* the size argument (k for find_seams)
    mask,      \* the mask argument of remove_object
    out,       \* the working image of reduce / enlarge / remove_object
    it,        \* iterations of the current loop done so far
    energy,    \* the last energy grid
    cost,      \* the last cost grid
    paths,     \* the last direction grid
    seam,      \* the last seam (a sequence of H columns)
    fs,        \* the frame of find_seams: its image, indices, seams, i, H
    seams_matrix, \* the live label grid of enlarge
    arg,       \* the second operand of a primitive applied directly
    err        \* the exception raised, "" when none

vars == <<op, pc, axis, efunc, image, size, mask, out, it, energy, cost,
          paths, seam, fs, seams_matrix, arg, err>>

----------------------------------------------------------------------------
(* Bounds of the model *)

MaxH == 2
MaxW == 3

(* Program constants *)

MaskEnergy == 100000
Margin == 30
EnlargeFactor == 2

(* float('inf'): larger than every finite cost of the model *)
Inf == 1000000000

----------------------------------------------------------------------------
(* numpy arrays *)

NoArray == [shape |-> <<0>>, dtype |-> "none", data |-> <<>>]

Rank(a) == Len(a.shape)

RECURSIVE Prod(_)
Prod(s) == IF s = <<>> THEN 1 ELSE s[1] * Prod(Tail(s))

Abs(x) == IF x < 0 THEN -x ELSE x

Get2(a, i, j) == a.data[i * a.shape[2] + j + 1]

Get3(a, i, j, c) == a.data[(i * a.shape[2] + j) * a.shape[3] + c + 1]

Mk2(H, W, dt, F(_, _)) ==
    [shape |-> <<H, W>>, dtype |-> dt,
     data |-> [n \in 1..(H * W) |-> F((n - 1) \div W, (n - 1) % W)] \o <<>>]

Mk3(H, W, C, dt, F(_, _, _)) ==
    [shape |-> <<H, W, C>>, dtype |-> dt,
     data |-> [n \in 1..(H * W * C) |->
                 F((n - 1) \div (W * C), ((n - 1) \div C) % W, (n - 1) % C)]
              \o <<>>]

(* np.expand_dims(image, axis=2) of a 2D array *)
expand_dims(a) == [a EXCEPT !.shape = a.shape \o <<1>>]

(* np.squeeze: every extent equal to 1 is dropped, whichever axis it is *)
squeeze(a) == [a EXCEPT !.shape = SelectSeq(a.shape, LAMBDA d : d # 1)]

(* np.transpose(a, (1, 0, 2)) *)
transpose3(a) ==
    Mk3(a.shape[2], a.shape[1], a.shape[3], a.dtype,
        LAMBDA i, j, c : Get3(a, j, i, c))

(* np.transpose(a, (1, 0)) *)
transpose2(a) ==
    Mk2(a.shape[2], a.shape[1], a.dtype, LAMBDA i, j : Get2(a, j, i))

(* Row i of a 2D array as a sequence (position j + 1 holds column j) *)
Row2(a, i) == [j \in 1..a.shape[2] |-> Get2(a, i, j - 1)] \o <<>>

(* The 2D array whose rows are the sequences in rows *)
FromRows(rows, W, dt) ==
    Mk2(Len(rows), W, dt, LAMBDA i, j : rows[i + 1][j + 1])

(* argmin with ties going to the last position holding the minimum *)
argmin_last(s) ==
    CHOOSE j \in 0..(Len(s) - 1) :
        /\ \A m \in 0..(Len(s) - 1) : s[j + 1] <= s[m + 1]
        /\ \A m \in (j + 1)..(Len(s) - 1) : s[m + 1] > s[j + 1]

(* np.argmin of a non-empty sequence: the first position holding the minimum *)
argmin(s) ==
    CHOOSE j \in 0..(Len(s) - 1) :
        /\ \A m \in 0..(Len(s) - 1) : s[j + 1] <= s[m + 1]
        /\ \A m \in 0..(j - 1) : s[m + 1] > s[j + 1]

----------------------------------------------------------------------------
(* energy_function *)

(* color.rgb2gray: 0.2125 R + 0.7154 G + 0.0721 B.  The images of the model
   hold channel samples that are multiples of 10000, on which the quotient
   below is exact. *)
rgb2gray(img) ==
    Mk2(img.shape[1], img.shape[2], "float64",
        LAMBDA i, j : (2125 * Get3(img, i, j, 0) + 7154 * Get3(img, i, j, 1)
                       + 721 * Get3(img, i, j, 2)) \div 10000)

(* Twice np.gradient of a line of n >= 2 samples at position p: the central
   difference inside, the one-sided difference (doubled) at the two ends *)
gradient2(n, p, At(_)) ==
    IF p = 0 THEN 2 * (At(1) - At(0))
    ELSE IF p = n - 1 THEN 2 * (At(n - 1) - At(n - 2))
    ELSE At(p + 1) - At(p - 1)

(* energy_function raises when the image is not 3D (the unpacking of its
   shape) or when an extent is below 2 (np.gradient) *)
energy_function_raises(img) ==
    IF Rank(img) # 3 THEN "ValueError"
    ELSE IF img.shape[1] < 2 \/ img.shape[2] < 2 THEN "ValueError"
    ELSE ""

energy_function(img) ==
    LET g == rgb2gray(img)
        H == img.shape[1]
        W == img.shape[2]
    IN  Mk2(H, W, "float64",
            LAMBDA i, j :
                Abs(gradient2(H, i, LAMBDA p : Get2(g, p, j)))
                + Abs(gradient2(W, j, LAMBDA p : Get2(g, i, p))))

----------------------------------------------------------------------------
(* compute_cost *)

(* The padding done with zeros instead of float('inf') *)
Padded_zero(row, j) == IF j < 0 \/ j >= Len(row) THEN 0 ELSE row[j + 1]

(* cost_padded[i, j + 1] of the source, for a row of W finite costs: the
   columns -1 and W hold float('inf') *)
Padded(row, j) == IF j < 0 \/ j >= Len(row) THEN Inf ELSE row[j + 1]

(* stack[:, j] for row i: the three candidates above column j *)
Stack(prev, j) == <<Padded(prev, j - 1), Padded(prev, j), Padded(prev, j + 1)>>

(* inf + x = inf *)
AddInf(a, b) == IF a >= Inf THEN Inf ELSE a + b

Min3(s) == s[argmin(s) + 1]

RECURSIVE CostRows(_, _, _)
CostRows(en, i, acc) ==
    IF i >= en.shape[1] THEN acc
    ELSE LET prev == acc[1][i]
             W    == en.shape[2]
             crow == [j \in 1..W |->
                        AddInf(Min3(Stack(prev, j - 1)), Get2(en, i, j - 1))]
                     \o <<>>
             prow == [j \in 1..W |-> argmin(Stack(prev, j - 1)) - 1] \o <<>>
         IN  CostRows(en, i + 1, <<Append(acc[1], crow), Append(acc[2], prow)>>)

(* compute_cost(image, energy) with axis=1: <<cost, paths>>.  The assertion
   on paths cannot fire: argmin of three candidates minus one is -1, 0 or 1. *)
compute_cost(en) ==
    LET H == en.shape[1]
        W == en.shape[2]
        rows == CostRows(en, 1, << <<Row2(en, 0)>>, << [j \in 1..W |-> 0] >> >>)
    IN  <<FromRows(rows[1], W, "float64"), FromRows(rows[2], W, "int")>>

----------------------------------------------------------------------------
(* compute_forward_cost *)

(* The forward term of row 0 added in every column but the last *)
ForwardRow0_left(g, en) ==
    [j \in 1..en.shape[2] |->
        Get2(en, 0, j - 1)
        + (IF j - 1 < g.shape[2] - 1
           THEN 2 * Abs(Get2(g, 0, j) - Get2(g, 0, IF j = 1 THEN 0 ELSE j - 2))
           ELSE 0)]

(* Row 0 of the forward cost: energy[0], plus the forward term in the
   interior columns *)
ForwardRow0(g, en) ==
    [j \in 1..en.shape[2] |->
        Get2(en, 0, j - 1)
        + (IF j - 1 > 0 /\ j - 1 < g.shape[2] - 1
           THEN 2 * Abs(Get2(g, 0, j) - Get2(g, 0, j - 2)) ELSE 0)]

(* stack[:, j] of the forward variant for row i >= 1 *)
ForwardStack(g, prev, i, j) ==
    LET W == g.shape[2]
        G(r, c) == Get2(g, r, c)
    IN  IF j > 0 /\ j < W - 1
        THEN <<prev[j] + 2 * Abs(G(i, j + 1) - G(i, j - 1))
                       + 2 * Abs(G(i - 1, j) - G(i, j - 1)),
               prev[j + 1] + 2 * Abs(G(i, j + 1) - G(i, j - 1)),
               prev[j + 2] + 2 * Abs(G(i, j + 1) - G(i, j - 1))
                           + 2 * Abs(G(i - 1, j) - G(i, j + 1))>>
        ELSE IF j = 0
        THEN <<Inf, prev[j + 1],
               prev[j + 2] + 2 * Abs(G(i - 1, j) - G(i, j + 1))>>
        ELSE <<prev[j] + 2 * Abs(G(i - 1, j) - G(i, j - 1)), prev[j + 1], Inf>>

RECURSIVE ForwardRows(_, _, _, _)
ForwardRows(g, en, i, acc) ==
    IF i >= g.shape[1] THEN acc
    ELSE LET prev == acc[1][i]
             W    == g.shape[2]
             crow == [j \in 1..W |->
                        AddInf(Min3(ForwardStack(g, prev, i, j - 1)),
                               Get2(en, i, j - 1))] \o <<>>
             prow == [j \in 1..W |-> argmin(ForwardStack(g, prev, i, j - 1)) - 1]
                     \o <<>>
         IN  ForwardRows(g, en, i + 1,
                         <<Append(acc[1], crow), Append(acc[2], prow)>>)

(* With one column and a second row, column 0 reads cost_padded[i-1, 1],
   which does not exist *)
compute_forward_cost_raises(img) ==
    IF Rank(img) # 3 THEN "ValueError"
    ELSE IF img.shape[2] = 1 /\ img.shape[1] >= 2 THEN "IndexError"
    ELSE ""

compute_forward_cost(img, en) ==
    LET g == rgb2gray(img)
        W == g.shape[2]
        rows == ForwardRows(g, en, 1,
                    << <<ForwardRow0(g, en)>>, << [j \in 1..W |-> 0] >> >>)
    IN  <<FromRows(rows[1], W, "float64"), FromRows(rows[2], W, "int")>>

----------------------------------------------------------------------------
(* backtrack_seam *)

(* paths[i, j] with numpy's indexing: a negative j counts from the end *)
PathAt(p, i, j) == Get2(p, i, IF j < 0 THEN j + p.shape[2] ELSE j)

RECURSIVE TraceUp(_, _, _)
TraceUp(p, i, acc) ==
    IF i < 0 THEN acc
    ELSE LET below == acc[1]
             W == p.shape[2]
         IN  IF below >= W \/ below < -W
             THEN <<>>  \* paths[i+1, below] raises IndexError
             ELSE TraceUp(p, i - 1, <<below + PathAt(p, i + 1, below)>> \o acc)

(* The seam before the assertion; <<>> when an index was out of range *)
TracedSeam(p, end) == TraceUp(p, p.shape[1] - 2, <<end>>)

backtrack_seam_raises(p, end) ==
    LET s == TracedSeam(p, end)
    IN  IF s = <<>> THEN "IndexError"
        ELSE IF \E i \in 1..Len(s) : s[i] < 0 \/ s[i] >= p.shape[2]
        THEN "AssertionError"
        ELSE ""

(* A trace that ignores the directions and stays in the end column *)
backtrack_seam_straight(p, end) == [i \in 1..p.shape[1] |-> end]

backtrack_seam(p, end) == TracedSeam(p, end)

----------------------------------------------------------------------------
(* remove_seam and duplicate_seam *)

(* The image as remove_seam works on it: a 2D input gets a third axis *)
AsThreeD(img) == IF Rank(img) = 2 THEN expand_dims(img) ELSE img

(* ValueError: the shape does not unpack into H, W, C.
   IndexError: the seam has fewer entries than the image has rows. *)
remove_seam_raises(img, s) ==
    IF Rank(AsThreeD(img)) # 3 THEN "ValueError"
    ELSE IF Len(s) < AsThreeD(img).shape[1] THEN "IndexError"
    ELSE ""

(* out[i, seam[i]:N-1, :] = out[i, seam[i]+1:N, :] in every row, then the
   last column is cut off and np.squeeze is applied to the result *)
remove_seam(img, s) ==
    LET a == AsThreeD(img)
        H == a.shape[1]
        W == a.shape[2]
        C == a.shape[3]
    IN  squeeze(Mk3(H, W - 1, C, a.dtype,
                    LAMBDA i, j, c :
                        IF j < s[i + 1] THEN Get3(a, i, j, c)
                        ELSE Get3(a, i, j + 1, c)))

duplicate_seam_raises(img, s) ==
    IF Rank(img) # 3 THEN "ValueError"
    ELSE IF Len(s) < img.shape[1] THEN "IndexError"
    ELSE ""

(* A duplication that doubles the cell to the right of the seam's *)
duplicate_seam_after(img, s) ==
    LET H == img.shape[1]
        W == img.shape[2]
        C == img.shape[3]
        Old(i, j, c) == IF j < W THEN Get3(img, i, j, c) ELSE 0
    IN  Mk3(H, W + 1, C, "float64",
            LAMBDA i, j, c :
                IF j <= s[i + 1] + 1 THEN Old(i, j, c) ELSE Old(i, j - 1, c))

(* out = zeros (H, W+1, C) with the image in its first W columns, then
   out[i, seam[i]+1:N, :] = out[i, seam[i]:N-1, :] in every row.  The result
   is a fresh np.zeros array: float64 whatever the input holds. *)
duplicate_seam(img, s) ==
    LET H == img.shape[1]
        W == img.shape[2]
        C == img.shape[3]
        Old(i, j, c) == IF j < W THEN Get3(img, i, j, c) ELSE 0
    IN  Mk3(H, W + 1, C, "float64",
            LAMBDA i, j, c :
                IF j <= s[i + 1] THEN Old(i, j, c) ELSE Old(i, j - 1, c))

----------------------------------------------------------------------------
(* One carving iteration, shared by reduce, find_seams and remove_object *)

(* The estimator passed as efunc that is not energy_function: the first
   sample of every pixel, in units of 10000 (it reads image[:, :, 0], so it
   needs a 3D image, and unlike np.gradient it accepts a single row) *)
first_channel(img) ==
    Mk2(img.shape[1], img.shape[2], "float64",
        LAMBDA i, j : Get3(img, i, j, 0) \div 10000)

efunc_raises(f, img) ==
    IF f = "energy_function" THEN energy_function_raises(img)
    ELSE IF Rank(img) # 3 THEN "IndexError" ELSE ""

apply_efunc(f, img) ==
    IF f = "energy_function" THEN energy_function(img) ELSE first_channel(img)

(* energy[i, j] = -100000 wherever mask[i, j] == 1 (in half units) *)
mask_energy(en, m) ==
    Mk2(en.shape[1], en.shape[2], en.dtype,
        LAMBDA i, j : IF Get2(m, i, j) = 1 THEN -(2 * MaskEnergy)
                      ELSE Get2(en, i, j))

(* energy = efunc(out); [masking;] cost, paths = cfunc(out, energy);
   end = np.argmin(cost[H-1]); seam = bfunc(paths, end);
   out = rfunc(out, seam).  H is the caller's H.  The record holds the
   exception raised ("" when none) and everything computed before it. *)
Carve(f, img, H, m) ==
    IF efunc_raises(f, img) # ""
    THEN [err |-> efunc_raises(f, img), energy |-> NoArray, cost |-> NoArray,
          paths |-> NoArray, seam |-> <<>>, out |-> img]
    ELSE
    LET e0 == apply_efunc(f, img)
        en == IF m = NoArray THEN e0 ELSE mask_energy(e0, m)
        cp == compute_cost(en)
        end == argmin(Row2(cp[1], H - 1))
    IN  IF backtrack_seam_raises(cp[2], end) # ""
        THEN [err |-> backtrack_seam_raises(cp[2], end), energy |-> en,
              cost |-> cp[1], paths |-> cp[2], seam |-> <<>>, out |-> img]
        ELSE
        LET s == backtrack_seam(cp[2], end)
        IN  IF remove_seam_raises(img, s) # ""
            THEN [err |-> remove_seam_raises(img, s), energy |-> en,
                  cost |-> cp[1], paths |-> cp[2], seam |-> s, out |-> img]
            ELSE [err |-> "", energy |-> en, cost |-> cp[1], paths |-> cp[2],
                  seam |-> s, out |-> remove_seam(img, s)]

----------------------------------------------------------------------------
(* Inputs of the model *)

(* The two pixels images are made of; samples are multiples of 10000 *)
Palette == << <<0, 0, 0>>, <<10000, 0, 10000>> >>

(* The values an injected energy estimator returns *)
EnergyLevels == {0, 1}

(* All value grids of H rows and W columns over the set S, as 2D arrays *)
Grids(H, W, S, dt) ==
    {[shape |-> <<H, W>>, dtype |-> dt, data |-> d] : d \in [1..(H * W) -> S]}

(* The colour image whose pixel (i, j) is Palette[b[i, j]] *)
Colour(b) ==
    Mk3(b.shape[1], b.shape[2], 3, "float64",
        LAMBDA i, j, c : Palette[Get2(b, i, j)][c + 1])

Images(H, W) == {Colour(b) : b \in Grids(H, W, 1..Len(Palette), "int")}

(* The images whose first channel grows by one unit from each column to the
   next, every row starting d units above the row before it *)
Ramps(H, W) ==
    {Mk3(H, W, 3, "float64",
         LAMBDA i, j, c : IF c = 0 THEN 10000 * (j + d * i) ELSE 0) : d \in {0, 1}}

(* The image whose cell (i, j, c) holds a value found nowhere else in it *)
Tagged(H, W, C) ==
    Mk3(H, W, C, "float64", LAMBDA i, j, c : 100 * (i + 1) + 10 * (j + 1) + c)

Shapes == (1..MaxH) \X (1..MaxW)

(* The frame of find_seams when it is not running *)
NoFrame == [image |-> NoArray, indices |-> NoArray, seams |-> NoArray,
            i |-> 0, k |-> 0, H |-> 0, axis |-> 1, caller |-> ""]

Idle ==
    /\ out = NoArray
    /\ it = 0
    /\ cost = NoArray
    /\ paths = NoArray
    /\ seams_matrix = NoArray
    /\ arg = <<>>
    /\ err = ""

----------------------------------------------------------------------------
(* The cost accumulators and the tracer, applied to every bounded input *)

InitCost ==
    /\ Idle
    /\ mask = NoArray
    /\ fs = NoFrame
    /\ axis = 1
    /\ efunc = "energy_function"
    /\ size = 0
    /\ pc = "call"
    /\ seam = <<>>
    /\ \E hw \in Shapes :
        \/ /\ op = "compute_cost"
           /\ image = NoArray
           /\ energy \in Grids(hw[1], hw[2], EnergyLevels, "float64")
        \/ /\ op = "compute_forward_cost"
           /\ image \in Images(hw[1], hw[2])
           /\ \/ \E e \in EnergyLevels :
                    energy = Mk2(hw[1], hw[2], "float64",
                                 LAMBDA i, j : IF i = 0 THEN e + j ELSE e)
              \/ /\ energy_function_raises(image) = ""
                 /\ energy = energy_function(image)

ComputeCost ==
    /\ op = "compute_cost"
    /\ pc = "call"
    /\ \E r \in {compute_cost(energy)} : cost' = r[1] /\ paths' = r[2]
    /\ pc' = "cost"
    /\ UNCHANGED <<op, axis, efunc, image, size, mask, out, it, energy, seam,
                   fs, seams_matrix, arg, err>>

ComputeForwardCost ==
    /\ op = "compute_forward_cost"
    /\ pc = "call"
    /\ IF compute_forward_cost_raises(image) # ""
       THEN /\ err' = compute_forward_cost_raises(image)
            /\ pc' = "raised"
            /\ UNCHANGED <<cost, paths>>
       ELSE /\ \E r \in {compute_forward_cost(image, energy)} :
                    cost' = r[1] /\ paths' = r[2]
            /\ pc' = "cost"
            /\ err' = ""
    /\ UNCHANGED <<op, axis, efunc, image, size, mask, out, it, energy, seam,
                   fs, seams_matrix, arg>>

(* backtrack_seam(paths, end) for any end column; the callers pass the
   argmin of the last cost row *)
BacktrackSeam ==
    /\ op \in {"compute_cost", "compute_forward_cost"}
    /\ pc = "cost"
    /\ \E end \in 0..(paths.shape[2] - 1) :
        /\ arg' = <<end>>
        /\ IF backtrack_seam_raises(paths, end) # ""
           THEN /\ err' = backtrack_seam_raises(paths, end)
                /\ pc' = "raised"
                /\ seam' = <<>>
           ELSE /\ seam' = backtrack_seam(paths, end)
                /\ pc' = "done"
                /\ err' = ""
    /\ UNCHANGED <<op, axis, efunc, image, size, mask, out, it, energy, cost,
                   paths, fs, seams_matrix>>

NextCost == ComputeCost \/ ComputeForwardCost \/ BacktrackSeam

SpecCost == InitCost /\ [][NextCost]_vars

----------------------------------------------------------------------------
(* Properties of the cost accumulators and the tracer *)

(* The in-grid columns among j-1, j, j+1 of a grid W columns wide *)
Above(j, W) == {c \in {j - 1, j, j + 1} : c >= 0 /\ c < W}

CostComputed == op = "compute_cost" /\ pc \in {"cost", "done", "raised"}

(* C5: compute_cost returns, for every row i >= 1 and column j, the energy
   of the cell plus the least cost among its in-grid neighbours in row i-1;
   paths[i][j] is -1, 0 or +1, points inside the grid at a neighbour that
   attains that least cost, and no neighbour further left attains it;
   row 0 of paths is zero. *)
C5_CostRecurrence ==
    CostComputed =>
        LET H == energy.shape[1]
            W == energy.shape[2]
        IN  /\ cost.shape = <<H, W>>
            /\ paths.shape = <<H, W>>
            /\ \A j \in 0..(W - 1) : Get2(paths, 0, j) = 0
            /\ \A i \in 1..(H - 1), j \in 0..(W - 1) :
                LET d == Get2(paths, i, j)
                IN  /\ d \in {-1, 0, 1}
                    /\ j + d \in Above(j, W)
                    /\ \A c \in Above(j, W) :
                          Get2(cost, i - 1, j + d) <= Get2(cost, i - 1, c)
                    /\ \A c \in Above(j, W) :
                          c < j + d => Get2(cost, i - 1, c) > Get2(cost, i - 1, j + d)
                    /\ Get2(cost, i, j)
                          = Get2(energy, i, j) + Get2(cost, i - 1, j + d)

(* A cell whose left and middle neighbours tie for the least cost, strictly
   below the right one, and whose direction is -1 *)
C5_Witness ==
    /\ CostComputed
    /\ energy.shape[1] >= 2
    /\ energy.shape[2] >= 3
    /\ Get2(cost, 0, 0) = Get2(cost, 0, 1)
    /\ Get2(cost, 0, 1) < Get2(cost, 0, 2)
    /\ Get2(paths, 1, 1) = -1
    /\ Get2(paths, 1, 0) = 0

ForwardComputed ==
    op = "compute_forward_cost" /\ pc \in {"cost", "done"}

(* C6 as stated: with either accumulator, row 0 of the cost grid equals
   row 0 of the energy grid in every column. *)
C6_Row0EqualsEnergy ==
    (CostComputed \/ ForwardComputed) =>
        \A j \in 0..(energy.shape[2] - 1) : Get2(cost, 0, j) = Get2(energy, 0, j)

(* C6 amended: row 0 of compute_cost's cost grid equals row 0 of the energy
   grid; row 0 of compute_forward_cost's cost grid equals row 0 of the
   energy grid at the two border columns and exceeds it by
   |gray[0][j+1] - gray[0][j-1]| at every interior column j (the model's
   half units double that term). *)
C6_Row0Amended ==
    /\ CostComputed =>
          \A j \in 0..(energy.shape[2] - 1) :
              Get2(cost, 0, j) = Get2(energy, 0, j)
    /\ ForwardComputed =>
          LET W == energy.shape[2]
              g == rgb2gray(image)
          IN  \A j \in 0..(W - 1) :
                 Get2(cost, 0, j) - Get2(energy, 0, j)
                    = IF j = 0 \/ j = W - 1 THEN 0
                      ELSE 2 * Abs(Get2(g, 0, j + 1) - Get2(g, 0, j - 1))

(* A forward cost grid whose row 0 differs from the energy's at an interior
   column *)
C6_Witness ==
    /\ ForwardComputed
    /\ energy.shape[2] >= 3
    /\ Get2(cost, 0, 1) # Get2(energy, 0, 1)
    /\ Get2(cost, 0, 0) = Get2(energy, 0, 0)

(* C7: tracing the direction grid of compute_cost from any end column in
   0..W-1 raises nothing and returns H columns, the last one equal to end,
   all inside 0..W-1, adjacent rows differing by at most 1. *)
C7_SeamConnected ==
    (op = "compute_cost" /\ pc \in {"done", "raised"}) =>
        LET H == paths.shape[1]
            W == paths.shape[2]
        IN  /\ err = ""
            /\ pc = "done"
            /\ Len(seam) = H
            /\ seam[H] = arg[1]
            /\ \A i \in 1..H : seam[i] >= 0 /\ seam[i] < W
            /\ \A i \in 1..(H - 1) : Abs(seam[i] - seam[i + 1]) <= 1

(* A traced seam that ends at the left-most argmin of the last cost row
   and moves sideways on its way up *)
C7_Witness ==
    /\ op = "compute_cost"
    /\ pc = "done"
    /\ Len(seam) >= 2
    /\ arg[1] = argmin(Row2(cost, cost.shape[1] - 1))
    /\ seam[1] # seam[2]

----------------------------------------------------------------------------
(* The seam mutator, applied to every bounded grid and in-bounds seam *)

(* The grid whose cell (i, j, c) is 10 * b[i, j] + c: equal cells of b give
   equal pixels, and the C samples of a pixel differ *)
Pixels(b, C, dt) ==
    Mk3(b.shape[1], b.shape[2], C, dt, LAMBDA i, j, c : 10 * Get2(b, i, j) + c)

(* The grids handed to the mutator: colour images, single-channel 3D grids
   and 2D grids (index maps, label grids, masks) *)
MutatorGrids(H, W) ==
    {Tagged(H, W, 3), Tagged(H, W, 1),
     Mk2(H, W, "int", LAMBDA i, j : 10 * (i + 1) + j)}
    \cup {Pixels(b, 3, "uint8") : b \in Grids(H, W, {0, 1}, "int")}
    \cup Grids(H, W, {0, 1}, "int")

InitMutator ==
    /\ Idle
    /\ mask = NoArray
    /\ fs = NoFrame
    /\ axis = 1
    /\ efunc = "energy_function"
    /\ size = 0
    /\ op = "remove_seam"
    /\ pc = "call"
    /\ energy = NoArray
    /\ \E hw \in Shapes :
        /\ image \in {g \in MutatorGrids(hw[1], hw[2]) : Prod(g.shape) > 0}
        /\ seam \in [1..hw[1] -> 0..(hw[2] - 1)]

(* out = remove_seam(image, seam) *)
RemoveSeam ==
    /\ op = "remove_seam"
    /\ pc = "call"
    /\ IF remove_seam_raises(image, seam) # ""
       THEN /\ err' = remove_seam_raises(image, seam)
            /\ pc' = "raised"
            /\ out' = out
       ELSE /\ out' = remove_seam(image, seam)
            /\ pc' = "removed"
            /\ err' = ""
    /\ UNCHANGED <<op, axis, efunc, image, size, mask, it, energy, cost, paths,
                   seam, fs, seams_matrix, arg>>

(* arg = duplicate_seam(out, seam): the removed grid duplicated at the
   positions the seam was removed at *)
DuplicateSeam ==
    /\ op = "remove_seam"
    /\ pc = "removed"
    /\ IF duplicate_seam_raises(out, seam) # ""
       THEN /\ err' = duplicate_seam_raises(out, seam)
            /\ pc' = "raised"
            /\ arg' = arg
       ELSE /\ arg' = duplicate_seam(out, seam)
            /\ pc' = "done"
            /\ err' = ""
    /\ UNCHANGED <<op, axis, efunc, image, size, mask, out, it, energy, cost,
                   paths, seam, fs, seams_matrix>>

NextMutator == RemoveSeam \/ DuplicateSeam

SpecMutator == InitMutator /\ [][NextMutator]_vars

(* Row i of a grid as the sequence of its W pixels, each the sequence of
   its samples (one sample for a 2D grid) *)
PixelRow(a, i) ==
    LET t == AsThreeD(a)
    IN  [j \in 1..t.shape[2] |->
            [c \in 1..t.shape[3] |-> Get3(t, i, j - 1, c - 1)]]

(* The sequence s without its element at 0-based position p *)
Without(s, p) == [j \in 1..(Len(s) - 1) |-> IF j <= p THEN s[j] ELSE s[j + 1]]

(* C8, on grids of at least two rows and two columns: remove_seam of an
   H x W x C or H x W grid and an in-bounds seam raises nothing and
   returns a grid of H rows and W-1 columns, with C
   channels for a 3D input and 2D for a 2D input, whose row i is row i of
   the input without the cell at column seam[i]; the element type is the
   input's. *)
C8_RemoveSeamShape ==
    (op = "remove_seam" /\ pc # "call"
     /\ image.shape[1] >= 2 /\ image.shape[2] >= 2) =>
        LET H == image.shape[1]
            W == image.shape[2]
        IN  /\ remove_seam_raises(image, seam) = ""
            /\ remove_seam(image, seam).shape
                  = IF Rank(image) = 3 THEN <<H, W - 1, image.shape[3]>>
                    ELSE <<H, W - 1>>
            /\ remove_seam(image, seam).dtype = image.dtype
            /\ \A i \in 0..(H - 1) :
                  PixelRow([remove_seam(image, seam) EXCEPT
                               !.shape = IF Rank(image) = 3
                                         THEN <<H, W - 1, image.shape[3]>>
                                         ELSE <<H, W - 1>>], i)
                     = Without(PixelRow(image, i), seam[i + 1])

(* Every cell next to the seam, in its row, holds the value of the seam's
   cell: whichever neighbour a duplication copies, it re-inserts the value
   that was removed *)
ReinsertsRemoved ==
    LET W == image.shape[2]
    IN  \A i \in 0..(image.shape[1] - 1) :
           \A j \in {seam[i + 1] - 1, seam[i + 1] + 1} :
               (j >= 0 /\ j < W) =>
                   PixelRow(image, i)[j + 1] = PixelRow(image, i)[seam[i + 1] + 1]

(* C9, on colour grids of at least two rows and three columns (none of
   whose axes a removal shrinks to 1): removing a seam and duplicating at
   the same positions restores the grid (same width, same value in every
   cell) whenever the duplication re-inserts the removed values, at every
   seam position, the last column included. *)
C9_RoundTrip ==
    (op = "remove_seam" /\ pc \in {"done", "raised"} /\ Rank(image) = 3
     /\ image.shape[1] >= 2 /\ image.shape[2] >= 3 /\ image.shape[3] = 3
     /\ ReinsertsRemoved) =>
        /\ pc = "done"
        /\ arg.shape = image.shape
        /\ arg.data = image.data

----------------------------------------------------------------------------
(* reduce *)

(* out = np.copy(image), transposed when axis == 0 *)
reduce_entry(img, ax) == IF ax = 0 THEN transpose3(img) ELSE img

(* The assertion that accepts a size equal to the current one *)
reduce_raises_lax(W, sz) ==
    IF ~(W >= sz) THEN "AssertionError"
    ELSE IF ~(sz > 0) THEN "AssertionError"
    ELSE ""

(* assert W > size; assert size > 0 *)
reduce_raises(W, sz) ==
    IF ~(W > sz) THEN "AssertionError"
    ELSE IF ~(sz > 0) THEN "AssertionError"
    ELSE ""

(* H, W and num_it of the running call *)
ReduceH == reduce_entry(image, axis).shape[1]
ReduceW == reduce_entry(image, axis).shape[2]
ReduceNumIt == ReduceW - size

Sizes(n) == 0..(n + 1)

InitReduce ==
    /\ Idle
    /\ mask = NoArray
    /\ fs = NoFrame
    /\ op = "reduce"
    /\ pc = "call"
    /\ energy = NoArray
    /\ seam = <<>>
    /\ \E hw \in Shapes :
        \/ /\ image \in Images(hw[1], hw[2])
           /\ \/ axis = 1 /\ size \in Sizes(hw[2]) /\ efunc = "energy_function"
              \/ axis = 0 /\ size \in Sizes(hw[1]) /\ efunc = "energy_function"
              \/ axis = 1 /\ size \in Sizes(hw[2]) /\ efunc = "first_channel"
        \/ /\ image \in Ramps(hw[1], hw[2])
           /\ axis = 1
           /\ size \in Sizes(hw[2])
           /\ efunc = "first_channel"

ReduceCall ==
    /\ op = "reduce"
    /\ pc = "call"
    /\ IF reduce_raises(ReduceW, size) # ""
       THEN /\ err' = reduce_raises(ReduceW, size)
            /\ pc' = "raised"
            /\ out' = out
       ELSE /\ out' = reduce_entry(image, axis)
            /\ pc' = "loop"
            /\ err' = ""
    /\ it' = 0
    /\ UNCHANGED <<op, axis, efunc, image, size, mask, energy, cost, paths,
                   seam, fs, seams_matrix, arg>>

(* One pass of the loop over range(num_it) *)
ReduceIter ==
    /\ op = "reduce"
    /\ pc = "loop"
    /\ it < ReduceNumIt
    /\ \E r \in {Carve(efunc, out, ReduceH, NoArray)} :
           /\ energy' = r.energy
           /\ cost' = r.cost
           /\ paths' = r.paths
           /\ seam' = r.seam
           /\ out' = r.out
           /\ err' = r.err
           /\ pc' = IF r.err # "" THEN "raised" ELSE "loop"
           /\ it' = IF r.err # "" THEN it ELSE it + 1
    /\ UNCHANGED <<op, axis, efunc, image, size, mask, fs, seams_matrix, arg>>

(* assert out.shape[1] == size; the transposition back; return out *)
reduce_exit_raises(o, sz, ax) ==
    IF Rank(o) < 2 THEN "IndexError"
    ELSE IF o.shape[2] # sz THEN "AssertionError"
    ELSE IF ax = 0 /\ Rank(o) # 3 THEN "ValueError"
    ELSE ""

ReduceReturn ==
    /\ op = "reduce"
    /\ pc = "loop"
    /\ it = ReduceNumIt
    /\ IF reduce_exit_raises(out, size, axis) # ""
       THEN /\ err' = reduce_exit_raises(out, size, axis)
            /\ pc' = "raised"
            /\ out' = out
       ELSE /\ out' = reduce_entry(out, axis)
            /\ pc' = "done"
            /\ err' = ""
    /\ UNCHANGED <<op, axis, efunc, image, size, mask, it, energy, cost, paths,
                   seam, fs, seams_matrix, arg>>

NextReduce == ReduceCall \/ ReduceIter \/ ReduceReturn

SpecReduce == InitReduce /\ [][NextReduce]_vars

(* The extent of the image along the axis being resized, and the shape the
   result must have when that extent becomes n *)
Extent == IF axis = 0 THEN image.shape[1] ELSE image.shape[2]
Resized(n) == IF axis = 0 THEN <<n, image.shape[2], image.shape[3]>>
              ELSE <<image.shape[1], n, image.shape[3]>>

(* C1, on working grids of at least two rows (the ones energy_function
   accepts): reduce with 0 < size < W along the axis completes without
   raising after exactly W - size removals and returns a grid whose extent
   along the axis is size, the other extent and the channels unchanged,
   for every such size, 1 included. *)
C1_ReduceCompletes ==
    (op = "reduce" /\ 0 < size /\ size < Extent /\ ReduceH >= 2) =>
        /\ pc # "raised"
        /\ pc = "done" => /\ it = Extent - size
                          /\ out.shape = Resized(size)

(* C2 as stated: reduce with size equal to the current extent runs no
   iteration and returns the grid unchanged. *)
C2_ReduceSameSizeReturns ==
    (op = "reduce" /\ size = Extent /\ pc # "call") =>
        /\ pc \in {"loop", "done"}
        /\ it = 0
        /\ pc = "done" => out = image

(* C2 amended: reduce with size equal to the current extent is rejected by
   the assertion W > size before any iteration and returns nothing. *)
C2_ReduceSameSizeRejected ==
    (op = "reduce" /\ size = Extent /\ pc # "call") =>
        /\ pc = "raised"
        /\ err = "AssertionError"
        /\ it = 0
        /\ out = NoArray

(* reduce called on a grid three columns wide with size 3 has raised *)
C2_Witness ==
    /\ op = "reduce"
    /\ axis = 1
    /\ image.shape[2] = 3
    /\ size = 3
    /\ pc = "raised"
    /\ err = "AssertionError"

(* np.sum of a sequence of numbers *)
RECURSIVE SumSeq(_)
SumSeq(q) == IF q = <<>> THEN 0 ELSE q[1] + SumSeq(Tail(q))

(* The seams of an H x W grid: one column per row, in bounds, the columns
   of adjacent rows at most one apart *)
ConnectedSeams(H, W) ==
    {s \in [1..H -> 0..(W - 1)] :
        \A i \in 1..(H - 1) : Abs(s[i] - s[i + 1]) <= 1}

(* The energy of the cells of en on the seam s *)
SeamEnergy(en, s) == SumSeq([i \in 1..Len(s) |-> Get2(en, i - 1, s[i])])

(* Every row of en grows strictly from left to right *)
StrictlyIncreasing(en) ==
    \A i \in 0..(en.shape[1] - 1) :
        \A j \in 1..(en.shape[2] - 1) : Get2(en, i, j - 1) < Get2(en, i, j)

(* In every row of en, columns 1 and 2 hold the same value and every other
   column a larger one *)
TieOneTwo(en) ==
    /\ en.shape[2] >= 3
    /\ \A i \in 0..(en.shape[1] - 1) :
          /\ Get2(en, i, 1) = Get2(en, i, 2)
          /\ \A j \in (0..(en.shape[2] - 1)) \ {1, 2} :
                Get2(en, i, j) > Get2(en, i, 1)

(* An iteration of reduce or of find_seams has traced its seam: energy,
   cost and seam are those of that iteration *)
SeamTraced ==
    /\ op \in {"reduce", "find_seams", "enlarge"}
    /\ seam # <<>>

(* C12: in every iteration of reduce and of find_seams, the seam traced
   from the left-most argmin of the last cost row is a connected seam
   ending there, its energy is the cost of that cell, and no connected
   seam of the energy grid has less energy; when every row of the energy
   grows strictly from left to right the seam is column 0 in every row,
   and when columns 1 and 2 tie as the strict minimum of every row the
   seam is column 1 in every row. *)
C12_MinimalSeam ==
    SeamTraced =>
        LET H == energy.shape[1]
            W == energy.shape[2]
            end == argmin(Row2(cost, H - 1))
        IN  /\ seam \in ConnectedSeams(H, W)
            /\ seam[H] = end
            /\ SeamEnergy(energy, seam) = Get2(cost, H - 1, end)
            /\ \A s \in ConnectedSeams(H, W) :
                  SeamEnergy(energy, seam) <= SeamEnergy(energy, s)
            /\ StrictlyIncreasing(energy) => \A i \in 1..H : seam[i] = 0
            /\ TieOneTwo(energy) => \A i \in 1..H : seam[i] = 1

(* reduce has removed the seam of column 1 from a 2 x 3 grid whose columns
   1 and 2 tie below column 0: a cheaper seam than the straight seam of
   column 0, and the left one of the two tied *)
C12_Witness ==
    /\ op = "reduce"
    /\ pc = "loop"
    /\ it = 1
    /\ energy # NoArray
    /\ energy.shape = <<2, 3>>
    /\ TieOneTwo(energy)
    /\ seam = <<1, 1>>
    /\ Get2(cost, 1, 1) < Get2(cost, 1, 0)

----------------------------------------------------------------------------
(* find_seams *)

(* The precondition with k equal to the width let through *)
find_seams_raises_lax(img, k) ==
    IF Rank(img) # 3 THEN "ValueError"
    ELSE IF ~(img.shape[2] >= k) THEN "AssertionError"
    ELSE ""

(* H, W, C = image.shape; assert W > k *)
find_seams_raises(img, k) ==
    IF Rank(img) # 3 THEN "ValueError"
    ELSE IF ~(img.shape[2] > k) THEN "AssertionError"
    ELSE ""

(* np.tile(range(W), (H, 1)) *)
tile_range(H, W) == Mk2(H, W, "int", LAMBDA i, j : j)

zeros2(H, W) == Mk2(H, W, "int", LAMBDA i, j : 0)

(* seams[np.arange(H), indices[np.arange(H), seam]]: IndexError when indices
   is no longer 2D, when the seam does not pair with the H rows or when a
   column is out of range; AssertionError when a stamped cell is nonzero *)
stamp_raises(ind, sm, s, H) ==
    IF Rank(ind) # 2 THEN "IndexError"
    ELSE IF Len(s) # H \/ ind.shape[1] < H THEN "IndexError"
    ELSE IF \E i \in 0..(H - 1) : s[i + 1] >= ind.shape[2] THEN "IndexError"
    ELSE IF \E i \in 0..(H - 1) : Get2(sm, i, Get2(ind, i, s[i + 1])) # 0
    THEN "AssertionError"
    ELSE ""

(* seams[np.arange(H), indices[np.arange(H), seam]] = label *)
stamp(ind, sm, s, label) ==
    Mk2(sm.shape[1], sm.shape[2], sm.dtype,
        LAMBDA i, j : IF j = Get2(ind, i, s[i + 1]) THEN label
                      ELSE Get2(sm, i, j))

(* find_seams(image, k, axis) is entered with its arguments in the frame *)
FindSeamsCall ==
    /\ pc = "fs_call"
    /\ \E img \in {reduce_entry(fs.image, fs.axis)} :
        IF find_seams_raises(img, fs.k) # ""
        THEN /\ err' = find_seams_raises(img, fs.k)
             /\ pc' = "raised"
             /\ fs' = fs
        ELSE /\ fs' = [fs EXCEPT !.image = img,
                                 !.H = img.shape[1],
                                 !.indices = tile_range(img.shape[1], img.shape[2]),
                                 !.seams = zeros2(img.shape[1], img.shape[2]),
                                 !.i = 0]
             /\ pc' = "fs_loop"
             /\ err' = ""
    /\ UNCHANGED <<op, axis, efunc, image, size, mask, out, it, energy, cost,
                   paths, seam, seams_matrix, arg>>

(* One pass of the loop over range(k) *)
FindSeamsIter ==
    /\ pc = "fs_loop"
    /\ fs.i < fs.k
    /\ \E r \in {Carve(efunc, fs.image, fs.H, NoArray)} :
        /\ energy' = r.energy
        /\ cost' = r.cost
        /\ paths' = r.paths
        /\ seam' = r.seam
        /\ IF r.err # ""
           THEN /\ err' = r.err
                /\ pc' = "raised"
                /\ fs' = fs
           ELSE IF stamp_raises(fs.indices, fs.seams, r.seam, fs.H) # ""
           THEN /\ err' = stamp_raises(fs.indices, fs.seams, r.seam, fs.H)
                /\ pc' = "raised"
                /\ fs' = [fs EXCEPT !.image = r.out]
           ELSE /\ err' = ""
                /\ pc' = "fs_loop"
                /\ fs' = [fs EXCEPT
                            !.image = r.out,
                            !.seams = stamp(fs.indices, fs.seams, r.seam, fs.i + 1),
                            !.indices = remove_seam(fs.indices, r.seam),
                            !.i = fs.i + 1]
    /\ UNCHANGED <<op, axis, efunc, image, size, mask, out, it, seams_matrix, arg>>

(* The label grid is transposed back when axis == 0 and returned: to
   enlarge when it made the call *)
FindSeamsReturn ==
    /\ pc = "fs_loop"
    /\ fs.i = fs.k
    /\ seams_matrix' = IF fs.axis = 0 THEN transpose2(fs.seams) ELSE fs.seams
    /\ pc' = IF fs.caller = "enlarge" THEN "en_loop" ELSE "done"
    /\ it' = 0
    /\ UNCHANGED <<op, axis, efunc, image, size, mask, out, energy, cost, paths,
                   seam, fs, arg, err>>

----------------------------------------------------------------------------
(* enlarge *)

(* H, W, C = out.shape; assert size > W; assert size <= 2 * W *)
enlarge_raises(o, sz) ==
    IF Rank(o) # 3 THEN "ValueError"
    ELSE IF ~(sz > o.shape[2]) THEN "AssertionError"
    ELSE IF ~(sz <= EnlargeFactor * o.shape[2]) THEN "AssertionError"
    ELSE ""

(* remove_size of remove_object: the largest number of masked cells in a
   row of the mask *)
MaskWidth ==
    LET sums == {SumSeq(Row2(mask, i)) : i \in 0..(mask.shape[1] - 1)}
    IN  CHOOSE m \in sums : \A n \in sums : n <= m

(* The arguments of the running enlarge: remove_object calls
   enlarge(out, W, 1) *)
EnlargeImage == IF op = "remove_object" THEN out ELSE image
EnlargeSize == IF op = "remove_object" THEN image.shape[2] ELSE size
EnlargeAxis == IF op = "remove_object" THEN 1 ELSE axis

(* row, col = np.where(seams_matrix == label): the columns of the matching
   cells in row-major order *)
RECURSIVE ColsFrom(_, _, _)
ColsFrom(sm, label, n) ==
    IF n > Len(sm.data) THEN <<>>
    ELSE (IF sm.data[n] = label THEN <<(n - 1) % sm.shape[2]>> ELSE <<>>)
         \o ColsFrom(sm, label, n + 1)

where_cols(sm, label) == ColsFrom(sm, label, 1)

(* seams_matrix[:, :, 0] *)
first_plane(a) ==
    Mk2(a.shape[1], a.shape[2], a.dtype, LAMBDA i, j : Get3(a, i, j, 0))

EnlargeCall ==
    /\ \/ op = "enlarge" /\ pc = "call"
       \/ op = "remove_object" /\ pc = "ro_loop"
          /\ it = MaskWidth + Margin
    /\ \E o \in {IF Rank(EnlargeImage) = 3
                 THEN reduce_entry(EnlargeImage, EnlargeAxis)
                 ELSE EnlargeImage} :
        IF enlarge_raises(o, EnlargeSize) # ""
        THEN /\ err' = enlarge_raises(o, EnlargeSize)
             /\ pc' = "raised"
             /\ UNCHANGED <<out, fs>>
        ELSE /\ out' = o
             /\ fs' = [NoFrame EXCEPT !.image = o,
                                      !.k = EnlargeSize - o.shape[2],
                                      !.caller = "enlarge"]
             /\ pc' = "fs_call"
             /\ err' = ""
    /\ UNCHANGED <<op, axis, efunc, image, size, mask, it, energy, cost, paths,
                   seam, seams_matrix, arg>>

(* One pass of the duplication loop: label it + 1 *)
EnlargeIter ==
    /\ pc = "en_loop"
    /\ it < fs.k
    /\ \E col \in {where_cols(seams_matrix, it + 1)} :
        /\ arg' = col
        /\ IF duplicate_seam_raises(out, col) # ""
           THEN /\ err' = duplicate_seam_raises(out, col)
                /\ pc' = "raised"
                /\ UNCHANGED <<out, seams_matrix, it>>
           ELSE /\ out' = duplicate_seam(out, col)
                /\ seams_matrix' =
                      first_plane(duplicate_seam(expand_dims(seams_matrix), col))
                /\ it' = it + 1
                /\ pc' = "en_loop"
                /\ err' = ""
    /\ UNCHANGED <<op, axis, efunc, image, size, mask, energy, cost, paths,
                   seam, fs>>

EnlargeReturn ==
    /\ pc = "en_loop"
    /\ it = fs.k
    /\ out' = reduce_entry(out, EnlargeAxis)
    /\ pc' = IF op = "remove_object" THEN "ro_return" ELSE "done"
    /\ UNCHANGED <<op, axis, efunc, image, size, mask, it, energy, cost, paths,
                   seam, fs, seams_matrix, arg, err>>

InitSeams ==
    /\ Idle
    /\ mask = NoArray
    /\ energy = NoArray
    /\ seam = <<>>
    /\ efunc \in {"energy_function", "first_channel"}
    /\ axis \in {0, 1}
    /\ \E hw \in Shapes :
        /\ image \in Images(hw[1], hw[2])
        /\ \/ /\ op = "find_seams"
              /\ pc = "fs_call"
              /\ size \in 0..(IF axis = 0 THEN hw[1] ELSE hw[2])
              /\ fs = [NoFrame EXCEPT !.image = image, !.k = size, !.axis = axis]
           \/ /\ op = "enlarge"
              /\ pc = "call"
              /\ size \in LET n == IF axis = 0 THEN hw[1] ELSE hw[2]
                          IN  n..(EnlargeFactor * n + 1)
              /\ fs = NoFrame

NextSeams ==
    \/ FindSeamsCall
    \/ FindSeamsIter
    \/ FindSeamsReturn
    \/ EnlargeCall
    \/ EnlargeIter
    \/ EnlargeReturn

SpecSeams == InitSeams /\ [][NextSeams]_vars

----------------------------------------------------------------------------
(* Properties of find_seams and enlarge *)

(* C3: enlarge with size exactly twice the current extent raises nothing,
   in enlarge or in the find_seams call it makes, and returns a grid of
   that size; a size above twice the extent is rejected. *)
C3_EnlargeDouble ==
    (op = "enlarge" /\ pc \in {"done", "raised"}) =>
        /\ size = EnlargeFactor * Extent =>
              pc = "done" /\ out.shape = Resized(size)
        /\ size > EnlargeFactor * Extent =>
              pc = "raised" /\ err = "AssertionError"

(* The label grid g holds, in each of its rows, every label of 1..k in
   exactly one cell, and zero in every other cell *)
LabelsOncePerRow(g, k) ==
    \A i \in 0..(g.shape[1] - 1) :
        /\ \A j \in 0..(g.shape[2] - 1) : Get2(g, i, j) \in 0..k
        /\ \A l \in 1..k :
              Cardinality({j \in 0..(g.shape[2] - 1) : Get2(g, i, j) = l}) = 1

(* C4, for an estimator that returns an energy grid for every H x W x 3
   image: find_seams with 0 <= k < W never raises (in particular it never
   stamps a nonzero cell), and the label grid it returns has the extents
   of the image and holds every label of 1..k exactly once in each row of
   the working grid, and nothing else but zeros. *)
C4_LabelsOncePerRow ==
    (op = "find_seams" /\ efunc = "first_channel" /\ size < Extent) =>
        /\ pc # "raised"
        /\ pc = "done" =>
              /\ seams_matrix.shape = <<image.shape[1], image.shape[2]>>
              /\ LabelsOncePerRow(fs.seams, size)

(* The same on working grids of at least two rows, with either estimator,
   where it holds *)
LabelsOncePerRowTwoRows ==
    (op = "find_seams" /\ size < Extent /\ pc \in {"done", "raised"}
     /\ reduce_entry(image, axis).shape[1] >= 2) =>
        /\ pc = "done"
        /\ seams_matrix.shape = <<image.shape[1], image.shape[2]>>
        /\ LabelsOncePerRow(fs.seams, size)

(* enlarge between the current extent and twice it, on working grids of at
   least two rows, returns a grid of the requested size *)
EnlargeTwoRows ==
    (op = "enlarge" /\ Extent < size /\ size < EnlargeFactor * Extent
     /\ pc \in {"done", "raised"} /\ reduce_entry(image, axis).shape[1] >= 2) =>
        /\ pc = "done"
        /\ out.shape = Resized(size)

(* The pixels px of a row with every pixel whose label in lab is one of
   1..k written twice in a row, and every other pixel once *)
RECURSIVE Doubled(_, _, _)
Doubled(px, lab, k) ==
    IF px = <<>> THEN <<>>
    ELSE (IF lab[1] \in 1..k THEN <<px[1], px[1]>> ELSE <<px[1]>>)
         \o Doubled(Tail(px), Tail(lab), k)

(* enlarge is in its duplication loop, about to look up label it + 1 *)
EnlargeStep == op = "enlarge" /\ pc = "en_loop" /\ it < fs.k

(* C11: in enlarge with W < size < 2W, at each step i = 1..size-W of the
   duplication loop the live label grid has the shape of the live image
   and holds label i exactly once in every row, so that the looked-up
   columns are H in number and the duplication raises nothing; the grid
   returned has extent size along the axis, and each of its rows is the
   original row with every pixel labelled 1..size-W written twice in a row
   and every unlabelled pixel once, in the original order. *)
C11_EnlargeDuplicates ==
    (op = "enlarge" /\ Extent < size /\ size < EnlargeFactor * Extent) =>
        /\ EnlargeStep =>
              /\ fs.k = size - Extent
              /\ seams_matrix.shape = <<out.shape[1], out.shape[2]>>
              /\ \A i \in 0..(out.shape[1] - 1) :
                    Cardinality({j \in 0..(out.shape[2] - 1) :
                                    Get2(seams_matrix, i, j) = it + 1}) = 1
              /\ Len(where_cols(seams_matrix, it + 1)) = out.shape[1]
              /\ duplicate_seam_raises(out, where_cols(seams_matrix, it + 1)) = ""
        /\ pc = "done" =>
              /\ out.shape = Resized(size)
              /\ \A i \in 0..(fs.H - 1) :
                    PixelRow(reduce_entry(out, axis), i)
                       = Doubled(PixelRow(reduce_entry(image, axis), i),
                                 Row2(fs.seams, i), fs.k)

(* enlarge has widened a 2 x 3 image whose first row holds two different
   pixels to 5 columns, by two duplications *)
C11_Witness ==
    /\ op = "enlarge"
    /\ pc = "done"
    /\ axis = 1
    /\ image.shape = <<2, 3, 3>>
    /\ size = 5
    /\ it = 2
    /\ out.shape = <<2, 5, 3>>
    /\ PixelRow(image, 0)[1] # PixelRow(image, 0)[2]

----------------------------------------------------------------------------
(* remove_object *)

(* assert image.shape[:2] == mask.shape *)
remove_object_raises(img, m) ==
    IF <<img.shape[1], img.shape[2]>> # m.shape THEN "AssertionError" ELSE ""

RemoveObjectCall ==
    /\ op = "remove_object"
    /\ pc = "call"
    /\ IF remove_object_raises(image, mask) # ""
       THEN /\ err' = remove_object_raises(image, mask)
            /\ pc' = "raised"
            /\ out' = out
       ELSE /\ out' = image
            /\ pc' = "ro_loop"
            /\ err' = ""
    /\ it' = 0
    /\ UNCHANGED <<op, axis, efunc, image, size, mask, energy, cost, paths,
                   seam, fs, seams_matrix, arg>>

(* One pass of the loop over range(remove_size + 30) *)
RemoveObjectPass ==
    /\ op = "remove_object"
    /\ pc = "ro_loop"
    /\ it < MaskWidth + Margin
    /\ \E r \in {Carve("energy_function", out, image.shape[1], mask)} :
        /\ energy' = r.energy
        /\ cost' = r.cost
        /\ paths' = r.paths
        /\ seam' = r.seam
        /\ out' = r.out
        /\ err' = r.err
        /\ pc' = IF r.err # "" THEN "raised" ELSE "ro_loop"
        /\ it' = IF r.err # "" THEN it ELSE it + 1
    /\ UNCHANGED <<op, axis, efunc, image, size, mask, fs, seams_matrix, arg>>

(* assert out.shape == image.shape; return out *)
RemoveObjectReturn ==
    /\ op = "remove_object"
    /\ pc = "ro_return"
    /\ IF out.shape # image.shape
       THEN err' = "AssertionError" /\ pc' = "raised"
       ELSE err' = "" /\ pc' = "done"
    /\ UNCHANGED <<op, axis, efunc, image, size, mask, out, it, energy, cost,
                   paths, seam, fs, seams_matrix, arg>>

(* The narrowest images wide enough for the margin passes to leave more
   than half of the columns: one masked column per row at most *)
WideW == EnlargeFactor * Margin + 3

(* The mask of H rows and W columns whose first n columns are set *)
ColumnsMask(H, W, n) ==
    Mk2(H, W, "bool", LAMBDA i, j : IF j < n THEN 1 ELSE 0)

(* The image of H rows and W columns with a stripe down column c *)
Striped(H, W, c) ==
    Mk3(H, W, 3, "float64", LAMBDA i, j, ch : Palette[IF j = c THEN 2 ELSE 1][ch + 1])

InitObject ==
    /\ Idle
    /\ op = "remove_object"
    /\ pc = "call"
    /\ axis = 1
    /\ efunc = "energy_function"
    /\ size = 0
    /\ energy = NoArray
    /\ seam = <<>>
    /\ fs = NoFrame
    /\ \/ \E hw \in Shapes :
            /\ image \in Images(hw[1], hw[2])
            /\ mask \in Grids(hw[1], hw[2], {0, 1}, "bool")
       \/ \E hw \in Shapes :
            /\ image = Striped(hw[1], hw[2], 0)
            /\ mask = ColumnsMask(hw[1], hw[2] + 1, 0)
       \/ \E n \in 0..2, c \in {0, 1, WideW - 1} :
            /\ image = Striped(MaxH, WideW, c)
            /\ mask = ColumnsMask(MaxH, WideW, n)

NextObject ==
    \/ RemoveObjectCall
    \/ RemoveObjectPass
    \/ EnlargeCall
    \/ FindSeamsCall
    \/ FindSeamsIter
    \/ FindSeamsReturn
    \/ EnlargeIter
    \/ EnlargeReturn
    \/ RemoveObjectReturn

SpecObject == InitObject /\ [][NextObject]_vars

(* C10, on images of at least two rows and two columns: remove_object of
   an H x W x 3 image and an H x W mask, whatever W and the number of
   masked cells per row, completes its passes and the
   enlargement without raising and returns a grid of the image's shape. *)
C10_RemoveObjectCompletes ==
    (op = "remove_object" /\ mask.shape = <<image.shape[1], image.shape[2]>>
     /\ image.shape[1] >= 2 /\ image.shape[2] >= 2) =>
        /\ pc # "raised"
        /\ pc = "done" => out.shape = image.shape

(* remove_object has returned a grid of the image's shape *)
RemoveObjectReturned ==
    op = "remove_object" /\ pc = "done" /\ out.shape = image.shape

====
